---- MODULE Spec2Model ----
(***************************************************************************)
(* Bird-observation ingestion: the cleaning engine of data_ingestion.py   *)
(* (initial_data_cleaning) over small DataFrames, under Spec, and the      *)
(* ingestion run (load_and_combine_data, cleaning, to_csv, upload_to_sql)  *)
(* with its two sinks and their readers, under RunSpec.                    *)
(*                                                                         *)
(* A DataFrame is [cols |-> set of column names, rows |-> sequence of     *)
(* [ix |-> index label, c |-> function column -> cell]].  The index label *)
(* is the pandas index: load_and_combine_data concatenates with           *)
(* ignore_index=True (labels 0..n-1) and drop_duplicates(inplace=True)    *)
(* keeps the labels of the rows it keeps.                                  *)
(*                                                                         *)
(* A cell is one of                                                        *)
(*   NaN                  a missing cell (NaN / None)                      *)
(*   NaT                  the missing marker of a datetime column          *)
(*   Str(s)               text, s a sequence of one-character strings      *)
(*   Num(n, d)            the finite number n/d in lowest terms, d > 0     *)
(*   Inf(sg)              +inf (sg = 1) or -inf (sg = -1)                  *)
(*   Bool(b)              a Python bool                                    *)
(*   Date(y, m, d)        a datetime value at midnight                     *)
(* Floating point is modelled by exact rationals: rounding error of       *)
(* float64 and integers beyond 2^53 are outside the model.                 *)
(***************************************************************************)
EXTENDS Integers, Sequences, FiniteSets, TLC

VARIABLES raw, df, prev, calls, status

\* The ingestion run (the __main__ block), its sources, its sinks and the
\* two readers of the durable table; described with the run's actions.
VARIABLES files, server, disk, pc, combined_df, cleaned_df, csv, table, out,
          engines, attempts, runs, start, last_ok, app, eda

cleanvars == <<raw, df, prev, calls, status>>

runvars ==
    <<files, server, disk, pc, combined_df, cleaned_df, csv, table, out,
      engines, attempts, runs, start, last_ok, app, eda>>

vars == <<cleanvars, runvars>>

(***************************************************************************)
(* Bounds of the model.                                                    *)
(***************************************************************************)
MaxRows == 4

MaxCalls == 2

MaxRuns == 2

(***************************************************************************)
(* Cells.                                                                  *)
(***************************************************************************)
NaN == [k |-> "nan"]

NaT == [k |-> "nat"]

Str(s) == [k |-> "str", s |-> s]

Num(n, d) == [k |-> "num", n |-> n, d |-> d]

Inf(sg) == [k |-> "inf", sg |-> sg]

Bool(b) == [k |-> "bool", b |-> b]

Date(y, m, d) == [k |-> "date", y |-> y, m |-> m, d |-> d]

\* pandas isnull(): NaN, None and NaT are missing; inf is not.
IsNull(x) == x.k \in {"nan", "nat"}

(***************************************************************************)
(* Exact arithmetic on n/d.                                                *)
(***************************************************************************)
Abs(i) == IF i < 0 THEN -i ELSE i

Sign(i) == IF i < 0 THEN -1 ELSE IF i > 0 THEN 1 ELSE 0

RECURSIVE GCD(_, _)
GCD(a, b) == IF b = 0 THEN a ELSE GCD(b, a % b)

Rat(n, d) ==
    LET g == GCD(Abs(n), Abs(d))
    IN  Num(Sign(d) * (n \div g), Abs(d) \div g)

RatAdd(x, y) == Rat(x.n * y.d + y.n * x.d, x.d * y.d)

\* Truncation toward zero, as a float -> int64 cast does.
Trunc(x) == Sign(x.n) * (Abs(x.n) \div x.d)

(***************************************************************************)
(* Text.                                                                   *)
(***************************************************************************)
LowerLetters ==
    <<"a", "b", "c", "d", "e", "f", "g", "h", "i", "j", "k", "l", "m",
      "n", "o", "p", "q", "r", "s", "t", "u", "v", "w", "x", "y", "z">>

UpperLetters ==
    <<"A", "B", "C", "D", "E", "F", "G", "H", "I", "J", "K", "L", "M",
      "N", "O", "P", "Q", "R", "S", "T", "U", "V", "W", "X", "Y", "Z">>

Digits == <<"0", "1", "2", "3", "4", "5", "6", "7", "8", "9">>

UpperChar(ch) ==
    IF \E i \in 1..Len(LowerLetters) : LowerLetters[i] = ch
    THEN UpperLetters[CHOOSE i \in 1..Len(LowerLetters) : LowerLetters[i] = ch]
    ELSE ch

\* str.upper()
Upper(s) == [i \in 1..Len(s) |-> UpperChar(s[i])]

IsDigit(ch) == \E i \in 1..Len(Digits) : Digits[i] = ch

DigitVal(ch) == (CHOOSE i \in 1..Len(Digits) : Digits[i] = ch) - 1

AllDigits(s) == \A i \in 1..Len(s) : IsDigit(s[i])

RECURSIVE DigitsVal(_)
DigitsVal(s) ==
    IF s = <<>> THEN 0
    ELSE 10 * DigitsVal(SubSeq(s, 1, Len(s) - 1)) + DigitVal(s[Len(s)])

RECURSIVE Pow10(_)
Pow10(e) == IF e = 0 THEN 1 ELSE 10 * Pow10(e - 1)

RECURSIVE NatStr(_)
NatStr(i) ==
    IF i < 10 THEN <<Digits[i + 1]>>
    ELSE Append(NatStr(i \div 10), Digits[(i % 10) + 1])

IntStr(i) == IF i < 0 THEN <<"-">> \o NatStr(-i) ELSE NatStr(i)

(***************************************************************************)
(* Conversions of one cell.                                                *)
(***************************************************************************)
Pad2(i) == IF i < 10 THEN <<"0">> \o NatStr(i) ELSE NatStr(i)

Pad4(i) ==
    IF i < 10 THEN <<"0", "0", "0">> \o NatStr(i)
    ELSE IF i < 100 THEN <<"0", "0">> \o NatStr(i)
    ELSE IF i < 1000 THEN <<"0">> \o NatStr(i)
    ELSE NatStr(i)

\* The decimal digits of r/d (r < d) after the point, at most `left` of them.
RECURSIVE FracStr(_, _, _)
FracStr(r, d, left) ==
    IF r = 0 \/ left = 0 THEN <<>>
    ELSE <<Digits[((10 * r) \div d) + 1]>> \o FracStr((10 * r) % d, d, left - 1)

\* str(value), as Series.astype(str) and array_strptime's fallback apply it.
AsStr(x) ==
    CASE x.k = "str"  -> x.s
      [] x.k = "nan"  -> <<"n", "a", "n">>
      [] x.k = "nat"  -> <<"N", "a", "T">>
      [] x.k = "bool" -> IF x.b THEN <<"T", "r", "u", "e">>
                         ELSE <<"F", "a", "l", "s", "e">>
      [] x.k = "inf"  -> IF x.sg < 0 THEN <<"-", "i", "n", "f">>
                         ELSE <<"i", "n", "f">>
      [] x.k = "num"  ->
            IF x.d = 1 THEN IntStr(x.n)
            ELSE (IF x.n < 0 THEN <<"-">> ELSE <<>>)
                 \o NatStr(Abs(x.n) \div x.d) \o <<".">>
                 \o FracStr(Abs(x.n) % x.d, x.d, 17)
      [] x.k = "date" -> Pad4(x.y) \o <<"-">> \o Pad2(x.m) \o <<"-">> \o Pad2(x.d)
                         \o <<" ", "0", "0", ":", "0", "0", ":", "0", "0">>

IsLeap(y) == (y % 4 = 0 /\ y % 100 # 0) \/ y % 400 = 0

DaysInMonth(y, m) ==
    IF m = 2 THEN (IF IsLeap(y) THEN 29 ELSE 28)
    ELSE IF m \in {4, 6, 9, 11} THEN 30 ELSE 31

\* First and last midnight a datetime64[ns] holds (Timestamp.min/.max): the
\* conversions follow pandas 2.x, where to_datetime yields nanosecond stamps.
TimestampMin == Date(1677, 9, 22)

TimestampMax == Date(2262, 4, 11)

DateLE(a, b) ==
    \/ a.y < b.y
    \/ a.y = b.y /\ a.m < b.m
    \/ a.y = b.y /\ a.m = b.m /\ a.d <= b.d

\* strptime that takes the text as month-day-year.
Strptime_month_first(s) ==
    LET dashes == {i \in 1..Len(s) : s[i] = "-"}
    IN  IF Cardinality(dashes) # 2 THEN NaT
        ELSE
          LET p1 == CHOOSE i \in dashes : \A j \in dashes : i <= j
              p2 == CHOOSE i \in dashes : \A j \in dashes : j <= i
              mm == SubSeq(s, 1, p1 - 1)
              dd == SubSeq(s, p1 + 1, p2 - 1)
              yy == SubSeq(s, p2 + 1, Len(s))
          IN  IF ~ ( /\ AllDigits(dd) /\ Len(dd) \in {1, 2}
                     /\ AllDigits(mm) /\ Len(mm) \in {1, 2}
                     /\ AllDigits(yy) /\ Len(yy) = 4 )
              THEN NaT
              ELSE
                LET d == DigitsVal(dd)
                    m == DigitsVal(mm)
                    y == DigitsVal(yy)
                IN  IF m \notin 1..12 \/ y < 1 \/ d < 1 THEN NaT
                    ELSE IF d > DaysInMonth(y, m) THEN NaT
                    ELSE Date(y, m, d)

\* strptime of one text under format '%d-%m-%Y', errors='coerce':
\* %d is 1..31 in one or two digits, %m is 1..12 in one or two digits, %Y is
\* four digits; the whole text must match; an impossible calendar date or one
\* outside the datetime64[ns] range is coerced to NaT.
Strptime(s) ==
    LET dashes == {i \in 1..Len(s) : s[i] = "-"}
    IN  IF Cardinality(dashes) # 2 THEN NaT
        ELSE
          LET p1 == CHOOSE i \in dashes : \A j \in dashes : i <= j
              p2 == CHOOSE i \in dashes : \A j \in dashes : j <= i
              dd == SubSeq(s, 1, p1 - 1)
              mm == SubSeq(s, p1 + 1, p2 - 1)
              yy == SubSeq(s, p2 + 1, Len(s))
          IN  IF ~ ( /\ AllDigits(dd) /\ Len(dd) \in {1, 2}
                     /\ AllDigits(mm) /\ Len(mm) \in {1, 2}
                     /\ AllDigits(yy) /\ Len(yy) = 4 )
              THEN NaT
              ELSE
                LET d == DigitsVal(dd)
                    m == DigitsVal(mm)
                    y == DigitsVal(yy)
                IN  IF m \notin 1..12 \/ y < 1 \/ d < 1 THEN NaT
                    ELSE IF d > DaysInMonth(y, m) THEN NaT
                    ELSE IF ~ ( /\ DateLE(TimestampMin, Date(y, m, d))
                                /\ DateLE(Date(y, m, d), TimestampMax) )
                    THEN NaT
                    ELSE Date(y, m, d)

\* pd.to_datetime(..., format='%d-%m-%Y', errors='coerce') on one cell: text is
\* parsed, a missing cell is NaT, a cell that already is a datetime is kept,
\* anything else is parsed from its str().
to_datetime(x) ==
    CASE x.k = "str"  -> Strptime(x.s)
      [] x.k = "date" -> x
      [] x.k \in {"nan", "nat"} -> NaT
      [] OTHER -> Strptime(AsStr(x))

\* The float a text denotes: optional sign, then inf/infinity in any case or
\* decimal digits with at most one point; anything else does not parse.
\* (Exponents and surrounding blanks are outside the model.)
ParseNumber(s) ==
    IF s = <<>> THEN NaN
    ELSE
      LET signed == s[1] \in {"-", "+"}
          sg     == IF s[1] = "-" THEN -1 ELSE 1
          body   == IF signed THEN Tail(s) ELSE s
          dots   == {i \in 1..Len(body) : body[i] = "."}
      IN  IF Upper(body) \in { <<"I", "N", "F">>,
                               <<"I", "N", "F", "I", "N", "I", "T", "Y">> }
          THEN Inf(sg)
          ELSE IF Cardinality(dots) > 1 THEN NaN
          ELSE
            LET p  == IF dots = {} THEN Len(body) + 1 ELSE CHOOSE i \in dots : TRUE
                ip == SubSeq(body, 1, p - 1)
                fp == SubSeq(body, p + 1, Len(body))
            IN  IF AllDigits(ip) /\ AllDigits(fp) /\ Len(ip) + Len(fp) > 0
                THEN Rat(sg * (DigitsVal(ip) * Pow10(Len(fp)) + DigitsVal(fp)),
                         Pow10(Len(fp)))
                ELSE NaN

\* pd.to_numeric(..., errors='coerce') on one cell.
to_numeric(x) ==
    CASE x.k \in {"num", "inf"} -> x
      [] x.k = "bool" -> Num(IF x.b THEN 1 ELSE 0, 1)
      [] x.k = "str"  -> ParseNumber(x.s)
      [] OTHER -> NaN

\* Series.fillna(v) on one cell.
fillna(x, v) == IF IsNull(x) THEN v ELSE x

\* .map({'TRUE': True, 'FALSE': False}) on one upper-cased text.
FlagMap(u) ==
    IF u = <<"T", "R", "U", "E">> THEN Bool(TRUE)
    ELSE IF u = <<"F", "A", "L", "S", "E">> THEN Bool(FALSE)
    ELSE NaN

\* The flag conversion without .str.upper().
NormalizeFlag_no_upper(x) == fillna(FlagMap(AsStr(x)), Bool(FALSE))

\* df[col].astype(str).str.upper().map({...}).fillna(False) on one cell.
NormalizeFlag(x) == fillna(FlagMap(Upper(AsStr(x))), Bool(FALSE))

\* .astype(int) on one cell of a float column without NaN.
AsInt(x) == Num(Trunc(x), 1)

(***************************************************************************)
(* The column lists of initial_data_cleaning.                              *)
(***************************************************************************)
flag_cols == <<"Flyover_Observed", "PIF_Watchlist_Status", "Regional_Stewardship_Status">>

numeric_cols ==
    <<"Temperature", "Humidity", "Initial_Three_Min_Cnt", "AcceptedTSN", "AOU_Code", "Visit">>

count_cols == {"Initial_Three_Min_Cnt", "Visit"}

code_cols == {"AcceptedTSN", "AOU_Code"}

categorical_cols ==
    <<"Sex", "ID_Method", "Distance", "Sky", "Wind", "Disturbance",
      "Common_Name", "Scientific_Name", "Sub_Unit_Code", "Site_Name",
      "Plot_Name", "Observer", "Interval_Length", "NPSTaxonCode",
      "TaxonCode", "Previously_Obs">>

Unknown == Str(<<"U", "n", "k", "n", "o", "w", "n">>)

Range(s) == {s[i] : i \in 1..Len(s)}

(***************************************************************************)
(* Column operations on the rows of a DataFrame.                           *)
(***************************************************************************)
\* df['Date'] = pd.to_datetime(df['Date'], ...), cell by cell.
ConvertDate(rows) ==
    [i \in 1..Len(rows) |-> [rows[i] EXCEPT !.c["Date"] = to_datetime(@)]]

\* df[col] = pd.to_numeric(df[col], errors='coerce'), cell by cell.
Coerce(rows, col) ==
    [i \in 1..Len(rows) |-> [rows[i] EXCEPT !.c[col] = to_numeric(@)]]

\* drop_duplicates without inplace=True: the table keeps every row.
drop_duplicates_not_inplace(rows) == rows

\* df.drop_duplicates(inplace=True): of rows equal in every column the first
\* is kept, with its index label; missing cells compare equal.
RECURSIVE drop_duplicates(_)
drop_duplicates(rows) ==
    IF rows = <<>> THEN <<>>
    ELSE
      LET n     == Len(rows)
          front == drop_duplicates(SubSeq(rows, 1, n - 1))
      IN  IF \E i \in 1..(n - 1) : rows[i].c = rows[n].c
          THEN front
          ELSE Append(front, rows[n])

\* The sum of the finite cells of a column, as n/d.
RECURSIVE SumFinite(_, _, _)
SumFinite(rows, col, i) ==
    IF i > Len(rows) THEN Num(0, 1)
    ELSE IF rows[i].c[col].k = "num"
         THEN RatAdd(rows[i].c[col], SumFinite(rows, col, i + 1))
         ELSE SumFinite(rows, col, i + 1)

\* The sum of the valid cells over the number of rows, missing ones included.
mean_over_all_rows(rows, col) ==
    LET total == SumFinite(rows, col, 1)
    IN  Rat(total.n, total.d * Len(rows))

\* Series.mean() (skipna): the sum of the cells that are not missing over
\* their count; +inf and -inf together give NaN, one of them gives itself.
mean(rows, col) ==
    LET cells  == {rows[i].c[col] : i \in 1..Len(rows)}
        count  == Cardinality({i \in 1..Len(rows) : ~ IsNull(rows[i].c[col])})
        total  == SumFinite(rows, col, 1)
    IN  IF count = 0 THEN NaN
        ELSE IF Inf(1) \in cells /\ Inf(-1) \in cells THEN NaN
        ELSE IF Inf(1) \in cells THEN Inf(1)
        ELSE IF Inf(-1) \in cells THEN Inf(-1)
        ELSE Rat(total.n, total.d * count)

\* One sentinel, 0, for counts and codes alike.
IntDefault_all_zero(col) == Num(0, 1)

\* The sentinel of an integer column.
IntDefault(col) == IF col \in count_cols THEN Num(0, 1) ELSE Num(-1, 1)

\* df[col].fillna(default).astype(int): raises on a non-finite value.
FillAsInt(rows, col) ==
    LET filled == [i \in 1..Len(rows) |->
                     [rows[i] EXCEPT !.c[col] = fillna(@, IntDefault(col))]]
    IN  IF \E i \in 1..Len(filled) : filled[i].c[col].k # "num"
        THEN [rows |-> rows, raised |-> TRUE]
        ELSE [rows |-> [i \in 1..Len(filled) |->
                          [filled[i] EXCEPT !.c[col] = AsInt(@)]],
              raised |-> FALSE]

\* Temperature / Humidity: fill with the column mean, or with 0 when every
\* cell is missing.
FillContinuous(rows, col) ==
    IF ~ (\A i \in 1..Len(rows) : IsNull(rows[i].c[col]))
    THEN LET m == mean(rows, col)
         IN  [i \in 1..Len(rows) |-> [rows[i] EXCEPT !.c[col] = fillna(@, m)]]
    ELSE [i \in 1..Len(rows) |-> [rows[i] EXCEPT !.c[col] = fillna(@, Num(0, 1))]]

\* One turn of the loop over numeric_cols, for a column the table has.
ConvertColumn(rows, col) ==
    LET coerced == Coerce(rows, col)
    IN  IF col \in count_cols \cup code_cols
        THEN FillAsInt(coerced, col)
        ELSE [rows |-> FillContinuous(coerced, col), raised |-> FALSE]

\* The loop over numeric_cols from its i-th column on; it stops at the first
\* column whose conversion raises, with the table as changed so far.
RECURSIVE ConvertNumeric(_, _, _)
ConvertNumeric(cols, rows, i) ==
    IF i > Len(numeric_cols) THEN [rows |-> rows, raised |-> FALSE]
    ELSE IF numeric_cols[i] \notin cols THEN ConvertNumeric(cols, rows, i + 1)
    ELSE LET r == ConvertColumn(rows, numeric_cols[i])
         IN  IF r.raised THEN r ELSE ConvertNumeric(cols, r.rows, i + 1)

\* The loop over the three flag columns.
ConvertFlags(cols, rows) ==
    [i \in 1..Len(rows) |->
       [rows[i] EXCEPT !.c =
          [col \in cols |-> IF col \in Range(flag_cols)
                            THEN NormalizeFlag(rows[i].c[col])
                            ELSE rows[i].c[col]]]]

\* The loop over categorical_cols with the fill left out.
FillCategorical_skipped(cols, rows) == rows

\* The loop over categorical_cols: fillna('Unknown').
FillCategorical(cols, rows) ==
    [i \in 1..Len(rows) |->
       [rows[i] EXCEPT !.c =
          [col \in cols |-> IF col \in Range(categorical_cols)
                            THEN fillna(rows[i].c[col], Unknown)
                            ELSE rows[i].c[col]]]]

\* The year with the code sentinel -1 for a missing date.
YearOf_minus_one(x) == IF x.k = "date" THEN Num(x.y, 1) ELSE Num(-1, 1)

\* df['Date'].dt.year.fillna(0).astype(int) on one Date cell.
YearOf(x) == IF x.k = "date" THEN Num(x.y, 1) ELSE Num(0, 1)

\* The mutant of the back-fill that derives Year from Date in any case.
BackfillYear_overwrites(t) ==
    IF "Date" \in t.cols
    THEN [cols |-> t.cols \cup {"Year"},
          rows |-> [i \in 1..Len(t.rows) |->
                      [t.rows[i] EXCEPT
                         !.c = [col \in t.cols \cup {"Year"} |->
                                  IF col = "Year" THEN YearOf(@["Date"])
                                  ELSE @[col]]]]]
    ELSE t

\* Year back-fill: a Year column is added when the table has none.
BackfillYear(t) ==
    IF "Year" \notin t.cols /\ "Date" \in t.cols
    THEN [cols |-> t.cols \cup {"Year"},
          rows |-> [i \in 1..Len(t.rows) |->
                      [t.rows[i] EXCEPT !.c = ("Year" :> YearOf(@["Date"])) @@ @]]]
    ELSE t

(***************************************************************************)
(* initial_data_cleaning(df): the table it leaves, and whether it raised.  *)
(* The function changes df in place, so a call that raises leaves the      *)
(* stages before the raise applied.                                        *)
(***************************************************************************)
initial_data_cleaning(t) ==
    LET deduped == drop_duplicates(t.rows)
    IN  IF "Date" \notin t.cols
        THEN [df |-> [cols |-> t.cols, rows |-> deduped], raised |-> TRUE]
        ELSE
          LET dated   == ConvertDate(deduped)
              flagged == ConvertFlags(t.cols, dated)
              numbers == ConvertNumeric(t.cols, flagged, 1)
          IN  IF numbers.raised
              THEN [df |-> [cols |-> t.cols, rows |-> numbers.rows], raised |-> TRUE]
              ELSE [df |-> BackfillYear([cols |-> t.cols,
                                         rows |-> FillCategorical(t.cols, numbers.rows)]),
                    raised |-> FALSE]

(***************************************************************************)
(* The raw tables the model runs on.  A profile gives the columns of a     *)
(* table and the cells each column draws from.                             *)
(***************************************************************************)
DateCells ==
    { Str(<<"2", "5", "-", "0", "1", "-", "2", "0", "2", "3">>),
      Str(<<"5", "-", "3", "-", "2", "0", "2", "4">>),
      Str(<<"3", "1", "-", "0", "2", "-", "2", "0", "2", "3">>),
      Str(<<"2", "0", "2", "3", "-", "0", "1", "-", "2", "5">>),
      Str(<<"0", "1", "-", "0", "1", "-", "1", "5", "0", "0">>),
      Num(20230125, 1),
      Date(2022, 7, 4),
      NaN }

DateFew == { Str(<<"2", "5", "-", "0", "1", "-", "2", "0", "2", "3">>), NaN }

DateOne == { Str(<<"2", "5", "-", "0", "1", "-", "2", "0", "2", "3">>) }

FlagCells ==
    { Str(<<"T", "R", "U", "E">>), Str(<<"t", "r", "u", "e">>),
      Str(<<"F", "a", "l", "s", "e">>), Str(<<"y", "e", "s">>),
      Bool(TRUE), Num(1, 1), NaN }

TemperatureCells ==
    { Num(10, 1), Num(20, 1), Num(43, 2), Str(<<"N", "/", "A">>), NaN,
      Str(<<"i", "n", "f">>), Str(<<"-", "i", "n", "f">>) }

HumidityCells == { Num(55, 1), Num(60, 1), NaN }

CountCells ==
    { Num(3, 1), Num(27, 10), Str(<<"7">>), Str(<<"x">>), NaN,
      Str(<<"i", "n", "f">>) }

VisitCells == { Num(2, 1), NaN, Str(<<"i", "n", "f">>) }

CodeCells == { Num(5, 1), Str(<<"n", "/", "a">>), NaN }

TextCells == { Str(<<"A", "n", "n">>), NaN }

YearCells == { Num(2023, 1), Num(1999, 1), NaN }

Profiles ==
    { [Date |-> DateCells],
      [Date |-> DateOne, Flyover_Observed |-> FlagCells],
      [Date |-> DateOne, Temperature |-> TemperatureCells],
      [Date |-> DateOne, Humidity |-> HumidityCells],
      [Date |-> DateOne, Initial_Three_Min_Cnt |-> CountCells],
      [Date |-> DateOne, AOU_Code |-> CodeCells, Visit |-> VisitCells],
      [Date |-> DateOne, AcceptedTSN |-> CodeCells],
      [Date |-> DateOne, Start_Time |-> TextCells, Year |-> YearCells],
      [Date |-> DateFew, Observer |-> TextCells, Sex |-> TextCells],
      [Observer |-> TextCells] }

\* Every assignment of a cell of p[col] to each column col of cs.
RECURSIVE RowsOf(_, _)
RowsOf(p, cs) ==
    IF cs = {} THEN { <<>> }
    ELSE LET col == CHOOSE x \in cs : TRUE
         IN  { (col :> v) @@ r : v \in p[col], r \in RowsOf(p, cs \ {col}) }

\* A table as the loader returns it: index labels 0..n-1.
MakeTable(cols, cells) ==
    [cols |-> cols,
     rows |-> [i \in 1..Len(cells) |-> [ix |-> i - 1, c |-> cells[i]]]]

EmptyTable == [cols |-> {}, rows |-> <<>>]

(***************************************************************************)
(* load_and_combine_data.  A source file is absent, unreadable (read_excel *)
(* raises), or a workbook: a sequence of sheets [name, cols, rows], rows   *)
(* being the data rows (column -> cell) under the header cols.             *)
(*                                                                         *)
(* Printed text: a line is a sequence of strings; a one-character string   *)
(* is that character, a longer string is a fixed piece of the message.     *)
(***************************************************************************)
\* The mutant of capitalize that leaves the tail in upper case.
capitalize_keeps_case(s) ==
    [i \in 1..Len(s) |-> IF i = 1 THEN UpperChar(s[i]) ELSE s[i]]

\* str.capitalize()
capitalize(s) ==
    LET LowerChar(ch) ==
            IF \E i \in 1..Len(UpperLetters) : UpperLetters[i] = ch
            THEN LowerLetters[CHOOSE i \in 1..Len(UpperLetters) :
                                UpperLetters[i] = ch]
            ELSE ch
    IN  [i \in 1..Len(s) |->
           IF i = 1 THEN UpperChar(s[i]) ELSE LowerChar(s[i])]

\* The dict of line 14, in insertion order.
excel_files ==
    << [location_type |-> <<"F", "O", "R", "E", "S", "T">>,
        filename_excel |-> "Bird_Monitoring_Data_FOREST.XLSX"],
       [location_type |-> <<"G", "R", "A", "S", "S", "L", "A", "N", "D">>,
        filename_excel |-> "Bird_Monitoring_Data_GRASSLAND.XLSX"] >>

Filenames == {excel_files[i].filename_excel : i \in 1..Len(excel_files)}

Absent == [k |-> "absent"]

Unreadable == [k |-> "unreadable"]

Workbook(sheets) == [k |-> "workbook", sheets |-> sheets]

\* os.path.exists(file_path)
exists(f) == f.k # "absent"

\* os.path.join(folder_path, filename_excel), folder_path being os.getcwd()
file_path(filename_excel) == <<"<cwd>", "/", filename_excel>>

NotFoundLine(filename_excel) ==
    <<"Error: Excel file '", filename_excel, "' not found at '">>
    \o file_path(filename_excel)
    \o <<"'. Please ensure it's in the project folder.">>

ReadingLine(e) ==
    <<"Reading all sheets from '", e.filename_excel, "' for ">>
    \o e.location_type \o <<" data...">>

LoadedLine(sheet) ==
    <<"  - Loaded sheet: '">> \o sheet.name \o <<"' (">>
    \o NatStr(Len(sheet.rows)) \o <<" rows)">>

ReadErrorLine(filename_excel) ==
    <<"Error reading Excel file ", filename_excel, ": ",
      "File is not a zip file">>

NoDataLoadedLine ==
    <<"No data was loaded from Excel files. Please check file names and paths.">>

\* Lines 34 and 37: the two columns are assigned on every row of the sheet,
\* over whatever the sheet held under those names.
\* The mutant that keeps a Location_Type column the sheet already has.
TagSheet_keeps_existing(location_type, sheet) ==
    LET tagged == sheet.cols \cup {"Location_Type", "Admin_Unit_Code"}
    IN  [cols |-> tagged,
         rows |-> [i \in 1..Len(sheet.rows) |->
                     [col \in tagged |->
                        IF col = "Location_Type" /\ col \notin sheet.cols
                        THEN Str(capitalize(location_type))
                        ELSE IF col = "Admin_Unit_Code" THEN Str(sheet.name)
                        ELSE sheet.rows[i][col]]]]

TagSheet(location_type, sheet) ==
    LET tagged == sheet.cols \cup {"Location_Type", "Admin_Unit_Code"}
    IN  [cols |-> tagged,
         rows |-> [i \in 1..Len(sheet.rows) |->
                     [col \in tagged |->
                        IF col = "Location_Type"
                        THEN Str(capitalize(location_type))
                        ELSE IF col = "Admin_Unit_Code" THEN Str(sheet.name)
                        ELSE sheet.rows[i][col]]]]

\* Lines 32-40 for one workbook: the tagged sheets and the lines printed.
RECURSIVE LoadSheets(_, _, _)
LoadSheets(location_type, sheets, i) ==
    IF i > Len(sheets) THEN [all_data |-> <<>>, out |-> <<>>]
    ELSE LET rest == LoadSheets(location_type, sheets, i + 1)
         IN  [all_data |-> <<TagSheet(location_type, sheets[i])>>
                           \o rest.all_data,
              out |-> <<LoadedLine(sheets[i])>> \o rest.out]

\* The mutant of the loop that stops at the first absent file.
RECURSIVE LoadFiles_stops_at_absent(_, _)
LoadFiles_stops_at_absent(fs, i) ==
    IF i > Len(excel_files) THEN [all_data |-> <<>>, out |-> <<>>]
    ELSE LET e == excel_files[i]
             f == fs[e.filename_excel]
         IN  IF ~exists(f)
             THEN [all_data |-> <<>>,
                   out |-> <<NotFoundLine(e.filename_excel)>>]
             ELSE LET rest == LoadFiles_stops_at_absent(fs, i + 1)
                      here ==
                        IF f.k = "unreadable"
                        THEN [all_data |-> <<>>,
                              out |-> <<ReadErrorLine(e.filename_excel)>>]
                        ELSE LoadSheets(e.location_type, f.sheets, 1)
                  IN  [all_data |-> here.all_data \o rest.all_data,
                       out |-> <<ReadingLine(e)>> \o here.out \o rest.out]

\* The loop of lines 19-43 from entry i of excel_files on.
RECURSIVE LoadFiles(_, _)
LoadFiles(fs, i) ==
    IF i > Len(excel_files) THEN [all_data |-> <<>>, out |-> <<>>]
    ELSE LET e == excel_files[i]
             f == fs[e.filename_excel]
             rest == LoadFiles(fs, i + 1)
         IN  IF ~exists(f)
             THEN [all_data |-> rest.all_data,
                   out |-> <<NotFoundLine(e.filename_excel)>> \o rest.out]
             ELSE LET here ==
                        IF f.k = "unreadable"
                        THEN [all_data |-> <<>>,
                              out |-> <<ReadErrorLine(e.filename_excel)>>]
                        ELSE LoadSheets(e.location_type, f.sheets, 1)
                  IN  [all_data |-> here.all_data \o rest.all_data,
                       out |-> <<ReadingLine(e)>> \o here.out \o rest.out]

\* The rows of the frames from frame i on, one after the other, each widened
\* to cols with NaN in the columns its frame does not have.
RECURSIVE ConcatCells(_, _, _)
ConcatCells(frames, cols, i) ==
    IF i > Len(frames) THEN <<>>
    ELSE [j \in 1..Len(frames[i].rows) |->
            [col \in cols |-> IF col \in frames[i].cols
                              THEN frames[i].rows[j][col] ELSE NaN]]
         \o ConcatCells(frames, cols, i + 1)

\* pd.concat(all_data, ignore_index=True)
concat(frames) ==
    LET cols == UNION {frames[i].cols : i \in 1..Len(frames)}
    IN  MakeTable(cols, ConcatCells(frames, cols, 1))

\* The whole function: the table returned and the lines printed.
load_and_combine_data(fs) ==
    LET l == LoadFiles(fs, 1)
    IN  IF l.all_data = <<>>
        THEN [df |-> EmptyTable, out |-> l.out \o <<NoDataLoadedLine>>]
        ELSE [df |-> concat(l.all_data), out |-> l.out]

(***************************************************************************)
(* The sinks: the flat file cleaned_bird_observations.csv and the table    *)
(* bird_observations of the PostgreSQL database.                           *)
(***************************************************************************)
\* DataFrame.empty: some axis has length 0.
\* The mutant that never finds a table empty.
empty_never(t) == FALSE

empty(t) == t.cols = {} \/ Len(t.rows) = 0

\* One field of the flat file: a missing cell is written as nothing, a
\* datetime at midnight as its date, anything else as str() writes it.
CsvField(x) ==
    IF IsNull(x) THEN <<>>
    ELSE IF x.k = "date"
         THEN Pad4(x.y) \o <<"-">> \o Pad2(x.m) \o <<"-">> \o Pad2(x.d)
         ELSE AsStr(x)

NoFile == [k |-> "none"]

\* What to_csv(path, index=False) writes: the header and one line per row,
\* without the index labels.
CsvOf(t) ==
    [k |-> "file",
     header |-> t.cols,
     lines |-> [i \in 1..Len(t.rows) |->
                  [col \in t.cols |-> CsvField(t.rows[i].c[col])]]]

\* The mutant of to_csv that opens the file in append mode.
to_csv_append(old, t) ==
    IF old = NoFile THEN CsvOf(t)
    ELSE [k |-> "file", header |-> old.header,
          lines |-> old.lines \o CsvOf(t).lines]

\* cleaned_df.to_csv('cleaned_bird_observations.csv', index=False): the
\* file of that name, whatever it held (old), is overwritten.
to_csv(old, t) == CsvOf(t)

NULL == [k |-> "null"]

\* A cell as a value of the SQL table: missing cells are stored as NULL.
SqlValue(x) == IF IsNull(x) THEN NULL ELSE x

NoTable == [k |-> "none"]

\* The table to_sql creates from a DataFrame (index=False).
SqlTable(t) ==
    [k |-> "table",
     cols |-> t.cols,
     rows |-> [i \in 1..Len(t.rows) |->
                 [col \in t.cols |-> SqlValue(t.rows[i].c[col])]]]

\* The mutant of to_sql with if_exists='append'.
to_sql_append(old, t) ==
    IF old = NoTable THEN SqlTable(t)
    ELSE [k |-> "table", cols |-> old.cols \cup t.cols,
          rows |-> old.rows \o SqlTable(t).rows]

\* df.to_sql('bird_observations', engine, if_exists='replace', index=False)
\* when it succeeds: the table of that name, whatever it held (old), is
\* dropped and created anew from df.
to_sql(old, t) == SqlTable(t)

\* The connection details of lines 113-117.
PG_USERNAME == <<"p", "o", "s", "t", "g", "r", "e", "s">>

PG_PASSWORD == <<"R", "o", "s", "h", "a", "n", "@", "2", "0", "2", "5">>

PG_HOST == <<"l", "o", "c", "a", "l", "h", "o", "s", "t">>

PG_PORT == <<"5", "4", "3", "2">>

PG_DB_NAME ==
    <<"b", "i", "r", "d", "_", "a", "n", "a", "l", "y", "s", "i", "s", "_",
      "d", "b">>

\* Another password the script could carry, for comparing two runs.
OtherPassword == <<"p", "w", ":", "1">>

Passwords == {PG_PASSWORD, OtherPassword}

\* urllib.parse.quote_plus on one character.
QuoteChar(ch) ==
    IF (\E i \in 1..Len(LowerLetters) :
          LowerLetters[i] = ch \/ UpperLetters[i] = ch)
       \/ IsDigit(ch) \/ ch \in {"_", ".", "-", "~"} THEN <<ch>>
    ELSE CASE ch = " " -> <<"+">>
           [] ch = "@" -> <<"%", "4", "0">>
           [] ch = ":" -> <<"%", "3", "A">>
           [] ch = "/" -> <<"%", "2", "F">>
           [] ch = "%" -> <<"%", "2", "5">>
           [] OTHER    -> <<"%", "3", "F">>

RECURSIVE quote_plus(_)
quote_plus(s) ==
    IF s = <<>> THEN <<>> ELSE QuoteChar(Head(s)) \o quote_plus(Tail(s))

\* Line 123.
db_connection_str(password) ==
    <<"postgresql://">> \o PG_USERNAME \o <<":">> \o quote_plus(password)
    \o <<"@">> \o PG_HOST \o <<":">> \o PG_PORT \o <<"/">> \o PG_DB_NAME

\* The server at the moment of the write: reachable or not, the password it
\* accepts for PG_USERNAME, whether the database PG_DB_NAME exists, and
\* whether the connection survives the write.
ServerStates ==
    { [up |-> FALSE, password |-> PG_PASSWORD, has_db |-> TRUE, stable |-> TRUE],
      [up |-> TRUE, password |-> PG_PASSWORD, has_db |-> TRUE, stable |-> TRUE],
      [up |-> TRUE, password |-> OtherPassword, has_db |-> TRUE, stable |-> TRUE],
      [up |-> TRUE, password |-> PG_PASSWORD, has_db |-> FALSE, stable |-> TRUE],
      [up |-> TRUE, password |-> PG_PASSWORD, has_db |-> TRUE, stable |-> FALSE] }

\* How to_sql ends against server srv when the URL carries password:
\* "ok", or the kind of the exception it raises.  The server checks the
\* password before it looks the database up.
to_sql_outcome(srv, password) ==
    IF ~srv.up THEN "refused"
    ELSE IF password # srv.password THEN "auth"
    ELSE IF ~srv.has_db THEN "no_db"
    ELSE IF ~srv.stable THEN "lost"
    ELSE "ok"

\* str(e) of the exception: the text of the driver.
ExceptionText(kind) ==
    CASE kind = "refused" ->
           <<"(psycopg2.OperationalError) connection to server at \"">>
           \o PG_HOST \o <<"\", port ">> \o PG_PORT
           \o <<" failed: Connection refused">>
      [] kind = "auth" ->
           <<"(psycopg2.OperationalError) connection to server at \"">>
           \o PG_HOST \o <<"\", port ">> \o PG_PORT
           \o <<" failed: FATAL:  password authentication failed for user \"">>
           \o PG_USERNAME \o <<"\"">>
      [] kind = "no_db" ->
           <<"(psycopg2.OperationalError) connection to server at \"">>
           \o PG_HOST \o <<"\", port ">> \o PG_PORT
           \o <<" failed: FATAL:  database \"">> \o PG_DB_NAME
           \o <<"\" does not exist">>
      [] kind = "lost" ->
           <<"(psycopg2.OperationalError) server closed the connection unexpectedly">>

UploadingLine ==
    <<"Uploading data to PostgreSQL database: ">> \o PG_DB_NAME \o <<"...">>

UploadedLine == <<"Data uploaded successfully to PostgreSQL.">>

ErrorUploadingLine(kind) ==
    <<"Error uploading data to PostgreSQL: ">> \o ExceptionText(kind)

EnsureServerLine ==
    <<"Please ensure your PostgreSQL server is running and connection details in this script are correct.">>

\* The mutant of line 134 that shows the password part of the URL.
AttemptedLine_unmasked(password) ==
    <<"Attempted connection string (without password shown): postgresql://">>
    \o PG_USERNAME \o <<":">> \o quote_plus(password) \o <<"@">> \o PG_HOST
    \o <<":">> \o PG_PORT \o <<"/">> \o PG_DB_NAME

\* Line 134; the password the script carries is not used.
AttemptedLine(password) ==
    <<"Attempted connection string (without password shown): postgresql://">>
    \o PG_USERNAME \o <<":", "*", "*", "*", "*", "*", "@">> \o PG_HOST
    \o <<":">> \o PG_PORT \o <<"/">> \o PG_DB_NAME

\* Everything lines 126-134 print against server srv.
UploadLines(password, srv) ==
    LET kind == to_sql_outcome(srv, password)
    IN  IF kind = "ok" THEN <<UploadingLine, UploadedLine>>
        ELSE <<UploadingLine, ErrorUploadingLine(kind), EnsureServerLine,
               AttemptedLine(password)>>

\* The lines of the __main__ block.
StartingLine == <<"Starting data ingestion and cleaning process...">>

CleaningLine == <<"Performing initial data cleaning...">>

\* Lines 146-149: the summary names the columns and counts.
SummaryLines(t) ==
    << <<"--- Data Cleaning Summary ---">>,
       <<"<info: ">> \o NatStr(Len(t.rows)) \o <<" entries>">>,
       <<"Missing values after cleaning (should be few or none for key columns):">> >>

SavedLine == <<"Cleaned data saved to 'cleaned_bird_observations.csv'">>

NothingLoadedLine ==
    <<"No data was loaded. Please check if Excel files are in the correct directory and named correctly.">>

(***************************************************************************)
(* The readers of the durable table: the dashboard (app.py) and the EDA    *)
(* script (eda.py).  Both fetch the whole table and stop on an empty one.  *)
(***************************************************************************)
\* The columns get_data_from_sql of app.py indexes (lines 29-60).
AppColumns ==
    {"Date", "Start_Time", "Distance", "PIF_Watchlist_Status",
     "Regional_Stewardship_Status", "Flyover_Observed"}

\* The columns get_data_from_sql of eda.py indexes (lines 34-49).
EdaColumns ==
    {"Date", "Start_Time", "PIF_Watchlist_Status",
     "Regional_Stewardship_Status", "Flyover_Observed", "Distance"}

\* A stored value as read_sql returns it.
FromSql(x) == IF x = NULL THEN NaN ELSE x

\* get_data_from_sql of either script: the table as a DataFrame, or, when
\* the body of the try raises (server not reachable, no such table, a
\* column it indexes is not there), the empty DataFrame of the handler.
get_data_from_sql(tbl, reachable, columns) ==
    IF ~reachable \/ tbl = NoTable \/ ~(columns \subseteq tbl.cols)
    THEN [df |-> EmptyTable, error |-> TRUE]
    ELSE [df |-> MakeTable(tbl.cols,
                           [i \in 1..Len(tbl.rows) |->
                              [col \in tbl.cols |-> FromSql(tbl.rows[i][col])]]),
          error |-> FALSE]

NotRun == [k |-> "none"]

\* A run of the EDA script: the notice of the empty case, or the charts
\* (eda.py lines 229-234).
ReaderRun(tbl, reachable, columns) ==
    LET got == get_data_from_sql(tbl, reachable, columns)
    IN  IF empty(got.df)
        THEN [k |-> "ran", rows |-> 0, notice |-> TRUE, charts |-> FALSE]
        ELSE [k |-> "ran", rows |-> Len(got.df.rows), notice |-> FALSE,
              charts |-> TRUE]

(***************************************************************************)
(* The dashboard script app.py after its load: the sidebar selections, the *)
(* filtered table and what the script reaches.  Streamlit runs the whole   *)
(* script again on every change of a selection.                            *)
(***************************************************************************)
\* Lines 29-32: Date through pd.to_datetime(errors='coerce') (the column as
\* read_sql returns it holds timestamps; anything else becomes NaT), and
\* ObservationYear = year of Date, 0 if NaT.
WithObservationYear(d) ==
    LET cols == d.cols \cup {"ObservationYear"}
        AppDate(x) == IF x.k = "date" THEN x ELSE NaT
    IN  [cols |-> cols,
         rows |-> [i \in 1..Len(d.rows) |->
                     [ix |-> d.rows[i].ix,
                      c |-> [col \in cols |->
                               IF col = "ObservationYear"
                               THEN YearOf(AppDate(d.rows[i].c["Date"]))
                               ELSE IF col = "Date"
                               THEN AppDate(d.rows[i].c["Date"])
                               ELSE d.rows[i].c[col]]]]]

\* df of line 77: the table with its derived year, or the empty DataFrame.
AppLoad(tbl, reachable) ==
    LET got == get_data_from_sql(tbl, reachable, AppColumns)
    IN  IF got.error THEN EmptyTable ELSE WithObservationYear(got.df)

\* df[col].unique(), for a column that is there.
unique(d, col) ==
    IF col \in d.cols THEN {d.rows[i].c[col] : i \in 1..Len(d.rows)} ELSE {}

\* Line 96: the years above 0.
all_years(d) ==
    {y \in unique(d, "ObservationYear") : y.k = "num" /\ y.n > 0}

\* What the three multiselects can return: any part of their options; the
\* year selection is empty when there is no valid year (lines 97-99).
Selections(d) ==
    [location_type : SUBSET unique(d, "Location_Type"),
     years : SUBSET all_years(d),
     observers : SUBSET unique(d, "Observer")]

\* The defaults of the multiselects: every option.
DefaultSelection(d) ==
    [location_type |-> unique(d, "Location_Type"),
     years |-> all_years(d),
     observers |-> unique(d, "Observer")]

\* The mutant of the filter that leaves the observer selection out.
filtered_df_ignores_observers(d, sel) ==
    IF sel.years = {} THEN EmptyTable
    ELSE LET Keep(r) == /\ r.c["Location_Type"] \in sel.location_type
                        /\ r.c["ObservationYear"] \in sel.years
         IN  [cols |-> d.cols, rows |-> SelectSeq(d.rows, Keep)]

\* Lines 118-125.
filtered_df(d, sel) ==
    IF sel.years = {} THEN EmptyTable
    ELSE LET Keep(r) == /\ r.c["Location_Type"] \in sel.location_type
                        /\ r.c["ObservationYear"] \in sel.years
                        /\ r.c["Observer"] \in sel.observers
         IN  [cols |-> d.cols, rows |-> SelectSeq(d.rows, Keep)]

\* What a run of the script reaches on df = d with selection sel:
\*   "stopped"  st.stop() after the notice of an empty df (lines 79-81)
\*   "raised"   a KeyError: df['Location_Type'] (line 86), df['Observer']
\*              (line 108) or filtered_df['Common_Name'] (line 130)
\*   "warning"  the warning of an empty filtered_df (lines 143-144)
\*   "tabs"     the tabs (line 147)
Reached(d, sel) ==
    IF empty(d) THEN "stopped"
    ELSE IF "Location_Type" \notin d.cols \/ "Observer" \notin d.cols
    THEN "raised"
    ELSE IF "Common_Name" \notin filtered_df(d, sel).cols THEN "raised"
    ELSE IF empty(filtered_df(d, sel)) THEN "warning"
    ELSE "tabs"

\* A run of the script.
DashboardRun(d, sel) ==
    LET reached == Reached(d, sel)
        shown == reached \in {"warning", "tabs"}
    IN  [k |-> "ran",
         rows |-> IF empty(d) THEN 0 ELSE Len(d.rows),
         notice |-> reached = "stopped",
         charts |-> reached = "tabs",
         selected |-> IF empty(d)
                      THEN [location_type |-> {}, years |-> {}, observers |-> {}]
                      ELSE sel,
         filtered_df |-> IF shown THEN filtered_df(d, sel) ELSE EmptyTable,
         reached |-> reached]

(***************************************************************************)
(* The source files the runs find.                                         *)
(***************************************************************************)
D25 == Str(<<"2", "5", "-", "0", "1", "-", "2", "0", "2", "3">>)

D05 == Str(<<"5", "-", "3", "-", "2", "0", "2", "4">>)

Ann == Str(<<"A", "n", "n">>)

UNIT1 ==
    [name |-> <<"U", "N", "I", "T", "1">>,
     cols |-> {"Date", "Observer"},
     rows |-> << [Date |-> D25, Observer |-> Ann],
                 [Date |-> D05, Observer |-> NaN],
                 [Date |-> D25, Observer |-> Ann] >>]

\* A sheet that already has a Location_Type column.
UNIT2 ==
    [name |-> <<"U", "N", "I", "T", "2">>,
     cols |-> {"Date", "Location_Type"},
     rows |-> << [Date |-> D25,
                  Location_Type |-> Str(<<"W", "e", "t", "l", "a", "n", "d">>)],
                 [Date |-> NaN, Location_Type |-> NaN] >>]

\* A sheet with a header and no data row.
UNIT3 ==
    [name |-> <<"U", "N", "I", "T", "3">>, cols |-> {"Date"}, rows |-> <<>>]

\* A sheet without a Date column.
UNIT4 ==
    [name |-> <<"U", "N", "I", "T", "4">>,
     cols |-> {"Observer"},
     rows |-> << [Observer |-> Ann] >>]

\* A sheet with the columns the readers index.
UNIT5 ==
    [name |-> <<"U", "N", "I", "T", "5">>,
     cols |-> {"Date", "Start_Time", "Distance", "PIF_Watchlist_Status",
               "Regional_Stewardship_Status", "Flyover_Observed"},
     rows |-> << [Date |-> D05,
                  Start_Time |-> Str(<<"0", "6", ":", "1", "0", ":", "0", "0">>),
                  Distance |-> NaN,
                  PIF_Watchlist_Status |-> Bool(TRUE),
                  Regional_Stewardship_Status |-> Str(<<"f", "a", "l", "s", "e">>),
                  Flyover_Observed |-> NaN] >>]

Workbooks == { <<UNIT1, UNIT2>>, <<UNIT3>>, <<UNIT4>>, <<UNIT5>> }

FileStates == {Absent, Unreadable} \cup {Workbook(w) : w \in Workbooks}

NoFiles == [fn \in Filenames |-> Absent]

\* What an earlier run over other files left in the sinks.
EarlierCleaned ==
    initial_data_cleaning(
        load_and_combine_data(
            [fn \in Filenames |->
               IF fn = excel_files[1].filename_excel
               THEN Workbook(<< [name |-> <<"O", "L", "D">>,
                                 cols |-> {"Date"},
                                 rows |-> << [Date |-> D25] >>] >>)
               ELSE Absent]).df).df

(***************************************************************************)
(* The ingestion run, lines 136-157, statement by statement.               *)
(*   files        the two declared source files                            *)
(*   pc           where the run is: "idle" between runs, "load", "loaded", *)
(*                "cleaned", "saved", "engine", then "done_ok",            *)
(*                "done_failed", "done_empty", or "crashed" (an exception  *)
(*                nothing caught)                                          *)
(*   combined_df  what load_and_combine_data returned                      *)
(*   cleaned_df   what initial_data_cleaning returned                      *)
(*   csv, table   the flat file and the table bird_observations            *)
(*   disk         how the to_csv of this run ended                         *)
(*   server       the server as the to_sql of this run met it              *)
(*   out          the lines this run printed                               *)
(*   engines      create_engine calls of this run                          *)
(*   attempts     to_sql calls of this run                                 *)
(*   runs         runs started                                             *)
(*   start        the sinks as this run found them                         *)
(*   last_ok      the files of the run before this one if its write to the *)
(*                database succeeded                                       *)
(*   app, eda     the last run of the dashboard and of the EDA script      *)
(***************************************************************************)
NoRun == [k |-> "none"]

NotMet == [k |-> "none"]

RunIdle ==
    /\ files = NoFiles
    /\ server = NotMet
    /\ disk = "none"
    /\ pc = "idle"
    /\ combined_df = EmptyTable
    /\ cleaned_df = EmptyTable
    /\ csv = NoFile
    /\ table = NoTable
    /\ out = <<>>
    /\ engines = 0
    /\ attempts = 0
    /\ runs = 0
    /\ start = [csv |-> NoFile, table |-> NoTable]
    /\ last_ok = NoRun
    /\ app = NotRun
    /\ eda = NotRun

(***************************************************************************)
(* The state machine: a raw table is handed over, initial_data_cleaning is *)
(* called on it, and then again on the table it returned.                  *)
(*   raw     the raw table                                                 *)
(*   df      the table as the last call left it                            *)
(*   prev    the table passed to the last call                             *)
(*   calls   how many calls were made                                      *)
(*   status  "idle" before a table is there, then "ok", or "raised" once   *)
(*           a call raised                                                 *)
(***************************************************************************)
Init ==
    /\ raw = EmptyTable
    /\ df = EmptyTable
    /\ prev = EmptyTable
    /\ calls = 0
    /\ status = "idle"
    /\ RunIdle

\* The combined table arrives: any table of a profile, 1..MaxRows rows.
Load ==
    /\ status = "idle"
    /\ \E p \in Profiles, n \in 1..MaxRows :
         \E s \in [1..n -> RowsOf(p, DOMAIN p)] : raw' = MakeTable(DOMAIN p, s)
    /\ df' = raw'
    /\ prev' = raw'
    /\ status' = "ok"
    /\ UNCHANGED calls
    /\ UNCHANGED runvars

Clean ==
    /\ calls < MaxCalls
    /\ status = "ok"
    /\ LET r == initial_data_cleaning(df)
       IN  /\ df' = r.df
           /\ status' = IF r.raised THEN "raised" ELSE "ok"
    /\ prev' = df
    /\ calls' = calls + 1
    /\ UNCHANGED raw
    /\ UNCHANGED runvars

Next == Load \/ Clean

Spec == Init /\ [][Next]_vars

\* The shape of the state.
TypeOK ==
    /\ calls \in 0..MaxCalls
    /\ status \in {"idle", "ok", "raised"}
    /\ df.cols \subseteq raw.cols \cup {"Year"}
    /\ \A i \in 1..Len(df.rows) : DOMAIN df.rows[i].c = df.cols

(***************************************************************************)
(* The actions of the ingestion run and of its surroundings.               *)
(***************************************************************************)
\* The mutant of the start of a run that creates an engine there.
Start_creates_engine ==
    /\ pc = "idle"
    /\ runs < MaxRuns
    /\ \E fs \in [Filenames -> FileStates] : files' = fs
    /\ server' = NotMet
    /\ pc' = "load"
    /\ runs' = runs + 1
    /\ out' = <<StartingLine>>
    /\ engines' = 1
    /\ attempts' = 0
    /\ disk' = "none"
    /\ combined_df' = EmptyTable
    /\ cleaned_df' = EmptyTable
    /\ start' = [csv |-> csv, table |-> table]
    /\ app' = NotRun
    /\ eda' = NotRun
    /\ UNCHANGED <<csv, table, last_ok>>
    /\ UNCHANGED cleanvars

\* Lines 137-139, with the source files as this run finds them.
Start ==
    /\ pc = "idle"
    /\ runs < MaxRuns
    /\ \E fs \in [Filenames -> FileStates] : files' = fs
    /\ server' = NotMet
    /\ pc' = "load"
    /\ runs' = runs + 1
    /\ out' = <<StartingLine>>
    /\ engines' = 0
    /\ attempts' = 0
    /\ disk' = "none"
    /\ combined_df' = EmptyTable
    /\ cleaned_df' = EmptyTable
    /\ start' = [csv |-> csv, table |-> table]
    /\ app' = NotRun
    /\ eda' = NotRun
    /\ UNCHANGED <<csv, table, last_ok>>
    /\ UNCHANGED cleanvars

\* Line 140.
LoadData ==
    /\ pc = "load"
    /\ LET l == load_and_combine_data(files)
       IN  /\ combined_df' = l.df
           /\ out' = out \o l.out
    /\ pc' = "loaded"
    /\ UNCHANGED <<files, server, disk, cleaned_df, csv, table, engines,
                   attempts, runs, start, last_ok, app, eda>>
    /\ UNCHANGED cleanvars

\* Lines 142, 156-157: nothing was loaded.
NothingLoaded ==
    /\ pc = "loaded"
    /\ empty(combined_df)
    /\ out' = Append(out, NothingLoadedLine)
    /\ pc' = "done_empty"
    /\ UNCHANGED <<files, server, disk, combined_df, cleaned_df, csv, table,
                   engines, attempts, runs, start, last_ok, app, eda>>
    /\ UNCHANGED cleanvars

\* The mutant of the cleaning step that goes on with the table as a
\* cleaning that raised left it.
CleanData_writes_partial ==
    /\ pc = "loaded"
    /\ ~empty(combined_df)
    /\ LET r == initial_data_cleaning(combined_df)
       IN  /\ pc' = "cleaned"
           /\ cleaned_df' = r.df
           /\ out' = out \o <<CleaningLine>> \o SummaryLines(r.df)
    /\ UNCHANGED <<files, server, disk, combined_df, csv, table, engines,
                   attempts, runs, start, last_ok, app, eda>>
    /\ UNCHANGED cleanvars

\* The mutant of the cleaning step that cleans combined_df itself, not a copy.
CleanData_in_place ==
    /\ pc = "loaded"
    /\ ~empty(combined_df)
    /\ LET r == initial_data_cleaning(combined_df)
       IN  /\ combined_df' = r.df
           /\ IF r.raised
              THEN /\ pc' = "crashed"
                   /\ out' = Append(out, CleaningLine)
                   /\ UNCHANGED cleaned_df
              ELSE /\ pc' = "cleaned"
                   /\ cleaned_df' = r.df
                   /\ out' = out \o <<CleaningLine>> \o SummaryLines(r.df)
    /\ UNCHANGED <<files, server, disk, csv, table, engines,
                   attempts, runs, start, last_ok, app, eda>>
    /\ UNCHANGED cleanvars

\* Lines 142-149; an exception of initial_data_cleaning ends the run.
CleanData ==
    /\ pc = "loaded"
    /\ ~empty(combined_df)
    /\ LET r == initial_data_cleaning(combined_df)
       IN  IF r.raised
           THEN /\ pc' = "crashed"
                /\ out' = Append(out, CleaningLine)
                /\ UNCHANGED cleaned_df
           ELSE /\ pc' = "cleaned"
                /\ cleaned_df' = r.df
                /\ out' = out \o <<CleaningLine>> \o SummaryLines(r.df)
    /\ UNCHANGED <<files, server, disk, combined_df, csv, table, engines,
                   attempts, runs, start, last_ok, app, eda>>
    /\ UNCHANGED cleanvars

\* Lines 152-153.  to_csv is not inside a try: when it raises, before
\* opening the file ("denied") or while writing ("full"), the run ends; in
\* the second case the file was opened and is left truncated.
SaveCsv ==
    /\ pc = "cleaned"
    /\ \E d \in {"written", "denied", "full"} :
         /\ disk' = d
         /\ csv' = CASE d = "written" -> to_csv(csv, cleaned_df)
                     [] d = "denied"  -> csv
                     [] d = "full"    ->
                          [k |-> "file", header |-> {}, lines |-> <<>>]
         /\ pc' = IF d = "written" THEN "saved" ELSE "crashed"
         /\ out' = IF d = "written" THEN Append(out, SavedLine) ELSE out
    /\ UNCHANGED <<files, server, combined_df, cleaned_df, table, engines,
                   attempts, runs, start, last_ok, app, eda>>
    /\ UNCHANGED cleanvars

\* Line 155 into upload_to_sql, lines 113-124.
CreateEngine ==
    /\ pc = "saved"
    /\ engines' = engines + 1
    /\ pc' = "engine"
    /\ UNCHANGED <<files, server, disk, combined_df, cleaned_df, csv, table,
                   out, attempts, runs, start, last_ok, app, eda>>
    /\ UNCHANGED cleanvars

\* The mutant of the write that tries again after a failure.
ToSql_retry ==
    /\ pc = "engine"
    /\ attempts' = attempts + 1
    /\ \E srv \in ServerStates :
         LET kind == to_sql_outcome(srv, PG_PASSWORD)
         IN  /\ server' = srv
             /\ out' = out \o UploadLines(PG_PASSWORD, srv)
             /\ pc' = IF kind = "ok" THEN "done_ok"
                      ELSE IF attempts = 0 THEN "engine" ELSE "done_failed"
             /\ table' = IF kind = "ok" THEN to_sql(table, cleaned_df) ELSE table
    /\ UNCHANGED <<files, disk, combined_df, cleaned_df, csv, engines, runs,
                   start, last_ok, app, eda>>
    /\ UNCHANGED cleanvars

\* Lines 126-134 against the server as it is at that moment.  A write the
\* server breaks off leaves the old table (the write is rolled back) or the
\* new table without rows (the old one was dropped before the insert).
ToSql ==
    /\ pc = "engine"
    /\ attempts' = attempts + 1
    /\ \E srv \in ServerStates :
         LET kind == to_sql_outcome(srv, PG_PASSWORD)
         IN  /\ server' = srv
             /\ out' = out \o UploadLines(PG_PASSWORD, srv)
             /\ pc' = IF kind = "ok" THEN "done_ok" ELSE "done_failed"
             /\ \/ kind = "ok" /\ table' = to_sql(table, cleaned_df)
                \/ kind # "ok" /\ table' = table
                \/ /\ kind = "lost"
                   /\ table' = to_sql(table, [cols |-> cleaned_df.cols,
                                              rows |-> <<>>])
    /\ UNCHANGED <<files, disk, combined_df, cleaned_df, csv, engines, runs,
                   start, last_ok, app, eda>>
    /\ UNCHANGED cleanvars

\* The process exits.
End ==
    /\ pc \in {"done_ok", "done_failed", "done_empty", "crashed"}
    /\ pc' = "idle"
    /\ last_ok' = IF pc = "done_ok" THEN [k |-> "run", files |-> files]
                  ELSE NoRun
    /\ UNCHANGED <<files, server, disk, combined_df, cleaned_df, csv, table,
                   out, engines, attempts, runs, start, app, eda>>
    /\ UNCHANGED cleanvars

\* The dashboard is opened: the script runs with the default selections.
Dashboard ==
    /\ pc = "idle"
    /\ app = NotRun
    /\ \E reachable \in BOOLEAN :
         LET d == AppLoad(table, reachable)
         IN  app' = DashboardRun(d, DefaultSelection(d))
    /\ UNCHANGED <<files, server, disk, pc, combined_df, cleaned_df, csv,
                   table, out, engines, attempts, runs, start, last_ok, eda>>
    /\ UNCHANGED cleanvars

\* The EDA script is run (eda.py lines 229-234).
Eda ==
    /\ pc = "idle"
    /\ eda = NotRun
    /\ \E reachable \in BOOLEAN :
         eda' = ReaderRun(table, reachable, EdaColumns)
    /\ UNCHANGED <<files, server, disk, pc, combined_df, cleaned_df, csv,
                   table, out, engines, attempts, runs, start, last_ok, app>>
    /\ UNCHANGED cleanvars

\* Before the first run the sinks are empty or hold an earlier run's table.
RunInit ==
    /\ raw = EmptyTable
    /\ df = EmptyTable
    /\ prev = EmptyTable
    /\ calls = 0
    /\ status = "idle"
    /\ files = NoFiles
    /\ server = NotMet
    /\ disk = "none"
    /\ pc = "idle"
    /\ combined_df = EmptyTable
    /\ cleaned_df = EmptyTable
    /\ \/ csv = NoFile /\ table = NoTable
       \/ csv = to_csv(NoFile, EarlierCleaned)
          /\ table = to_sql(NoTable, EarlierCleaned)
    /\ out = <<>>
    /\ engines = 0
    /\ attempts = 0
    /\ runs = 0
    /\ start = [csv |-> csv, table |-> table]
    /\ last_ok = NoRun
    /\ app = NotRun
    /\ eda = NotRun

RunNext ==
    \/ Start
    \/ LoadData
    \/ NothingLoaded
    \/ CleanData
    \/ SaveCsv
    \/ CreateEngine
    \/ ToSql
    \/ End
    \/ Dashboard
    \/ Eda

RunSpec == RunInit /\ [][RunNext]_vars

(***************************************************************************)
(* The dashboard on tables earlier ingestion runs left: it is opened, and  *)
(* then its user changes the sidebar selections.                           *)
(***************************************************************************)
Bob == Str(<<"B", "o", "b">>)

Robin == Str(<<"R", "o", "b", "i", "n">>)

Wren == Str(<<"W", "r", "e", "n">>)

\* A data row of a sheet with the columns the dashboard indexes.
SheetRow(date, observer, common_name) ==
    [Date |-> date,
     Start_Time |-> Str(<<"0", "6", ":", "1", "0", ":", "0", "0">>),
     Distance |-> NaN,
     PIF_Watchlist_Status |-> Bool(FALSE),
     Regional_Stewardship_Status |-> Bool(TRUE),
     Flyover_Observed |-> NaN,
     Observer |-> observer,
     Common_Name |-> common_name]

SheetColumns == AppColumns \cup {"Observer", "Common_Name"}

\* Two years, a date that is no date, an observer left out.
UNIT6 ==
    [name |-> <<"U", "N", "I", "T", "6">>,
     cols |-> SheetColumns,
     rows |-> << SheetRow(D25, Ann, Robin),
                 SheetRow(D05, NaN, Wren),
                 SheetRow(Str(<<"3", "1", "-", "0", "2", "-", "2", "0", "2", "3">>),
                          Ann, Robin) >>]

UNIT7 ==
    [name |-> <<"U", "N", "I", "T", "7">>,
     cols |-> SheetColumns,
     rows |-> << SheetRow(D05, Bob, Wren) >>]

\* No row with a date.
UNIT8 ==
    [name |-> <<"U", "N", "I", "T", "8">>,
     cols |-> SheetColumns,
     rows |-> << SheetRow(NaN, Ann, Robin), SheetRow(NaN, Bob, NaN) >>]

\* The table a successful run over files fs leaves.
Persisted(fs) ==
    to_sql(NoTable, initial_data_cleaning(load_and_combine_data(fs).df).df)

FilesOf(forest, grassland) ==
    [fn \in Filenames |->
       IF fn = excel_files[1].filename_excel THEN forest ELSE grassland]

PersistedTables ==
    { NoTable,
      Persisted(FilesOf(Workbook(<<UNIT6>>), Workbook(<<UNIT7>>))),
      Persisted(FilesOf(Workbook(<<UNIT6>>), Absent)),
      Persisted(FilesOf(Workbook(<<UNIT8>>), Absent)),
      Persisted(FilesOf(Absent, Workbook(<<UNIT5>>))) }

AppInit ==
    /\ raw = EmptyTable
    /\ df = EmptyTable
    /\ prev = EmptyTable
    /\ calls = 0
    /\ status = "idle"
    /\ files = NoFiles
    /\ server = NotMet
    /\ disk = "none"
    /\ pc = "idle"
    /\ combined_df = EmptyTable
    /\ cleaned_df = EmptyTable
    /\ csv = NoFile
    /\ table \in PersistedTables
    /\ out = <<>>
    /\ engines = 0
    /\ attempts = 0
    /\ runs = 0
    /\ start = [csv |-> NoFile, table |-> NoTable]
    /\ last_ok = NoRun
    /\ app = NotRun
    /\ eda = NotRun

\* The user changes the selections of the sidebar and the script runs again
\* on the cached df.  The three multiselects are there once lines 86-114
\* have run.
Select ==
    /\ pc = "idle"
    /\ app # NotRun
    /\ app.rows > 0
    /\ LET d == AppLoad(table, TRUE)
       IN  /\ {"Location_Type", "Observer"} \subseteq d.cols
           /\ \E sel \in Selections(d) : app' = DashboardRun(d, sel)
    /\ UNCHANGED <<files, server, disk, pc, combined_df, cleaned_df, csv,
                   table, out, engines, attempts, runs, start, last_ok, eda>>
    /\ UNCHANGED cleanvars

AppNext == Dashboard \/ Select

AppSpec == AppInit /\ [][AppNext]_vars

(***************************************************************************)
(* Properties.                                                             *)
(***************************************************************************)
\* The first call has returned: df is initial_data_cleaning(raw).
Cleaned == calls = 1 /\ status = "ok"

\* Some call has returned and none has raised.
Returned == calls >= 1 /\ status = "ok"

\* The raw row a row of df stems from, by its index label.
RawRow(r) == raw.rows[r.ix + 1]

RowIdx(t) == 1..Len(t.rows)

\* C1: idempotence of cleaning.  When initial_data_cleaning is applied to the
\* table a first application returned, the table it returns equals its
\* argument: no row is removed and no cell changes.
C1_Idempotent == (calls >= 2 /\ status = "ok") => df = prev

\* C2 as stated: after cleaning, no cell of any column of any row is missing.
C2_NoMissingAnywhere ==
    Returned => \A i \in RowIdx(df) : \A col \in df.cols : ~ IsNull(df.rows[i].c[col])

\* The columns whose missing cells cleaning replaces by a sentinel.
SentinelCols ==
    Range(flag_cols) \cup count_cols \cup code_cols \cup Range(categorical_cols)

\* C2, amended: after cleaning no cell is missing in the flag columns, the
\* integer columns, the categorical columns and a back-filled Year; a cell of
\* Temperature or Humidity is missing only when the column holds both +inf and
\* -inf (its mean is undefined).  Date and the columns cleaning does not name
\* keep their missing cells.
C2_FilledColumnsNotMissing ==
    Returned =>
      \A i \in RowIdx(df) : \A col \in df.cols :
        /\ col \in SentinelCols => ~ IsNull(df.rows[i].c[col])
        /\ (col = "Year" /\ "Year" \notin raw.cols) => ~ IsNull(df.rows[i].c[col])
        /\ (col \in {"Temperature", "Humidity"} /\ IsNull(df.rows[i].c[col])) =>
              /\ \E j \in RowIdx(df) : df.rows[j].c[col] = Inf(1)
              /\ \E j \in RowIdx(df) : df.rows[j].c[col] = Inf(-1)

\* A cleaned row whose raw Observer was missing and is now 'Unknown', while its
\* unparseable Date stays the missing marker.
C2_Witness ==
    /\ Cleaned
    /\ "Observer" \in df.cols
    /\ \E i \in RowIdx(df) :
         /\ RawRow(df.rows[i]).c["Observer"] = NaN
         /\ df.rows[i].c["Observer"] = Unknown
         /\ RawRow(df.rows[i]).c["Date"] = NaN
         /\ df.rows[i].c["Date"] = NaT

\* C3: the cleaned table is duplicate-free: no two of its rows are equal in
\* every column.
C3_DuplicateFree ==
    Returned =>
      \A i, j \in RowIdx(df) : i # j => df.rows[i].c # df.rows[j].c

C5_NeverRaises == "Date" \in raw.cols => status # "raised"

\* C6: boolean normalization.  Each flag column the table has holds, in every
\* row, a boolean that is true iff the text of the raw cell, upper-cased, is
\* exactly TRUE; FALSE, any other token and a missing cell give false.
C6_FlagNormalization ==
    Returned =>
      \A i \in RowIdx(df) : \A col \in Range(flag_cols) \cap df.cols :
        LET x == RawRow(df.rows[i]).c[col]
            y == df.rows[i].c[col]
        IN  /\ y \in {Bool(TRUE), Bool(FALSE)}
            /\ y = Bool(TRUE) <=> Upper(AsStr(x)) = <<"T", "R", "U", "E">>
            /\ IsNull(x) => y = Bool(FALSE)

\* Lower-case 'true' became True, 'yes' and a missing cell became False.
C6_Witness ==
    /\ Cleaned
    /\ "Flyover_Observed" \in df.cols
    /\ \E i \in RowIdx(df) :
         /\ RawRow(df.rows[i]).c["Flyover_Observed"] = Str(<<"t", "r", "u", "e">>)
         /\ df.rows[i].c["Flyover_Observed"] = Bool(TRUE)
    /\ \E i \in RowIdx(df) :
         /\ RawRow(df.rows[i]).c["Flyover_Observed"] = Str(<<"y", "e", "s">>)
         /\ df.rows[i].c["Flyover_Observed"] = Bool(FALSE)
    /\ \E i \in RowIdx(df) :
         /\ RawRow(df.rows[i]).c["Flyover_Observed"] = NaN
         /\ df.rows[i].c["Flyover_Observed"] = Bool(FALSE)

\* C7: integer column defaults.  In Initial_Three_Min_Cnt and Visit every
\* cleaned cell is an integer, the raw value when that is an integer and 0 when
\* the raw cell is missing or text that is no number; in AcceptedTSN and
\* AOU_Code likewise, with -1 in place of 0.
C7_IntegerDefaults ==
    Returned =>
      \A i \in RowIdx(df) : \A col \in (count_cols \cup code_cols) \cap df.cols :
        LET x == RawRow(df.rows[i]).c[col]
            y == df.rows[i].c[col]
        IN  /\ y.k = "num" /\ y.d = 1
            /\ (x.k = "num" /\ x.d = 1) => y = x
            /\ (IsNull(x) \/ (x.k = "str" /\ ParseNumber(x.s) = NaN)) =>
                 y = IF col \in {"Initial_Three_Min_Cnt", "Visit"}
                     THEN Num(0, 1) ELSE Num(-1, 1)

\* A missing Visit became 0 and an unparseable AOU_Code became -1 in a table
\* that kept an integer of each.
C7_Witness ==
    /\ Cleaned
    /\ {"Visit", "AOU_Code"} \subseteq df.cols
    /\ \E i \in RowIdx(df) :
         /\ RawRow(df.rows[i]).c["Visit"] = NaN
         /\ df.rows[i].c["Visit"] = Num(0, 1)
         /\ RawRow(df.rows[i]).c["AOU_Code"] = Num(5, 1)
         /\ df.rows[i].c["AOU_Code"] = Num(5, 1)
    /\ \E i \in RowIdx(df) :
         /\ RawRow(df.rows[i]).c["AOU_Code"] = Str(<<"n", "/", "a">>)
         /\ df.rows[i].c["AOU_Code"] = Num(-1, 1)
         /\ RawRow(df.rows[i]).c["Visit"] = Num(2, 1)
         /\ df.rows[i].c["Visit"] = Num(2, 1)

\* The sum of the finite values among V[i], i in idx.
RECURSIVE SumOver(_, _)
SumOver(V, idx) ==
    IF idx = {} THEN Num(0, 1)
    ELSE LET i == CHOOSE j \in idx : TRUE
         IN  RatAdd(V[i], SumOver(V, idx \ {i}))

\* C8: continuous column imputation.  In Temperature and Humidity every cell
\* that is a number keeps its value; every missing or unparseable cell becomes
\* the mean of the numbers of the column over the rows left after duplicate
\* removal; when no row has a number every cell becomes 0.  (With +inf or -inf
\* among the numbers the mean is that infinity, and undefined with both.)
C8_ContinuousImputation ==
    Cleaned =>
      \A col \in {"Temperature", "Humidity"} \cap df.cols :
        LET V     == [i \in RowIdx(df) |-> to_numeric(RawRow(df.rows[i]).c[col])]
            valid == {i \in RowIdx(df) : ~ IsNull(V[i])}
            gaps  == RowIdx(df) \ valid
            total == SumOver(V, {i \in valid : V[i].k = "num"})
        IN  /\ \A i \in valid : df.rows[i].c[col] = V[i]
            /\ valid = {} => \A i \in gaps : df.rows[i].c[col] = Num(0, 1)
            /\ (valid # {} /\ \A i \in valid : V[i].k = "num") =>
                 \A i \in gaps :
                   LET m == df.rows[i].c[col]
                   IN  /\ m.k = "num"
                       /\ m.n * total.d * Cardinality(valid) = total.n * m.d
            /\ (\E i \in valid : V[i].k = "inf") =>
                 \A i \in gaps :
                   df.rows[i].c[col] =
                     IF \A j \in valid : V[j] # Inf(-1) THEN Inf(1)
                     ELSE IF \A j \in valid : V[j] # Inf(1) THEN Inf(-1)
                     ELSE NaN

\* Raw temperatures 10, 10, 20 and 'N/A', the two 10s in equal rows: the
\* 'N/A' cell became 15, the mean over the three rows left.
C8_Witness ==
    /\ Cleaned
    /\ "Temperature" \in df.cols
    /\ Len(raw.rows) = 4
    /\ Len(df.rows) = 3
    /\ {raw.rows[j].c["Temperature"] : j \in RowIdx(raw)} =
         {Num(10, 1), Num(20, 1), Str(<<"N", "/", "A">>)}
    /\ Cardinality({j \in RowIdx(raw) : raw.rows[j].c["Temperature"] = Num(10, 1)}) = 2
    /\ \E i \in RowIdx(df) :
         /\ RawRow(df.rows[i]).c["Temperature"] = Str(<<"N", "/", "A">>)
         /\ df.rows[i].c["Temperature"] = Num(15, 1)

\* A date of the calendar.
ValidCalendar(dt) ==
    /\ dt.y \in 1..9999
    /\ dt.m \in 1..12
    /\ dt.d \in 1..DaysInMonth(dt.y, dt.m)

InTimestampRange(dt) == DateLE(TimestampMin, dt) /\ DateLE(dt, TimestampMax)

\* The texts that write a date as day-month-year: day and month in one or two
\* digits, the year in four.
Renderings(dt) ==
    { D \o <<"-">> \o M \o <<"-">> \o Pad4(dt.y) :
        D \in {NatStr(dt.d), Pad2(dt.d)}, M \in {NatStr(dt.m), Pad2(dt.m)} }

\* The last four characters of a text.
Last4(s) == SubSeq(s, Len(s) - 3, Len(s))

\* The days whose one- or two-digit writing, followed by a dash, starts a text.
LeadingDays(s) ==
    { d \in 1..31 :
        \E D \in {NatStr(d), Pad2(d)} :
          Len(s) > Len(D) /\ SubSeq(s, 1, Len(D)) = D /\ s[Len(D) + 1] = "-" }

\* The calendar dates a text writes in day-month-year form (at most one): a
\* rendering starts with its day and ends with the four digits of its year.
NamedDates(s) ==
    IF Len(s) >= 4 /\ AllDigits(Last4(s))
    THEN { dt \in { Date(DigitsVal(Last4(s)), m, d) : m \in 1..12, d \in LeadingDays(s) } :
             ValidCalendar(dt) /\ s \in Renderings(dt) }
    ELSE {}

C10_YearBackfill ==
    (Returned /\ "Year" \notin raw.cols) =>
      /\ "Year" \in df.cols
      /\ \A i \in RowIdx(df) :
           LET x  == RawRow(df.rows[i]).c["Date"]
               y  == df.rows[i].c["Date"]
               yr == df.rows[i].c["Year"]
           IN  /\ yr.k = "num" /\ yr.d = 1
               /\ y.k = "date" => yr.n = y.y
               /\ (y.k = "date" /\ x.k = "str") => yr.n = DigitsVal(Last4(x.s))
               /\ yr.n = 0 <=> y = NaT

\* A table without Year got one: 2023 and 2024 for the parsed dates, 0 for a
\* row whose Date is the missing marker.
C10_Witness ==
    /\ Cleaned
    /\ raw.cols = {"Date"}
    /\ \E i \in RowIdx(df) :
         /\ df.rows[i].c["Date"] = Date(2023, 1, 25)
         /\ df.rows[i].c["Year"] = Num(2023, 1)
    /\ \E i \in RowIdx(df) :
         /\ df.rows[i].c["Date"] = Date(2024, 3, 5)
         /\ df.rows[i].c["Year"] = Num(2024, 1)
    /\ \E i \in RowIdx(df) :
         /\ df.rows[i].c["Date"] = NaT
         /\ df.rows[i].c["Year"] = Num(0, 1)

(***************************************************************************)
(* Properties of the ingestion run.                                        *)
(***************************************************************************)
\* load_and_combine_data has returned in the current or last run.
Loaded == runs > 0 /\ pc # "load"

Forest == Str(<<"F", "o", "r", "e", "s", "t">>)

Grassland == Str(<<"G", "r", "a", "s", "s", "l", "a", "n", "d">>)

\* The habitat label of entry i of excel_files.
Category(i) == IF i = 1 THEN Forest ELSE Grassland

\* The sheets the loader can read from entry i of excel_files.
SheetsOf(i) ==
    LET f == files[excel_files[i].filename_excel]
    IN  IF f.k = "workbook" THEN f.sheets ELSE <<>>

\* Every data row of every sheet of every file: <<entry, sheet, row>>.
SourceRows ==
    UNION { UNION { {<<i, k, j>> : j \in 1..Len(SheetsOf(i)[k].rows)} :
                    k \in 1..Len(SheetsOf(i)) } :
            i \in 1..Len(excel_files) }

\* The rows of t tagged with entry i and sheet k, in the order of t,
\* restricted to the columns the sheet brought besides the two tags.
RowsTagged(t, i, k) ==
    LET sheet == SheetsOf(i)[k]
        own == sheet.cols \ {"Location_Type", "Admin_Unit_Code"}
        Mine(r) == /\ r.c["Location_Type"] = Category(i)
                   /\ r.c["Admin_Unit_Code"] = Str(sheet.name)
        mine == SelectSeq(t.rows, Mine)
    IN  [j \in 1..Len(mine) |-> [col \in own |-> mine[j].c[col]]]

\* The data rows of sheet k of entry i, on the same columns.
RowsOfSheet(i, k) ==
    LET sheet == SheetsOf(i)[k]
        own == sheet.cols \ {"Location_Type", "Admin_Unit_Code"}
    IN  [j \in 1..Len(sheet.rows) |-> [col \in own |-> sheet.rows[j][col]]]

\* C11: the loader returns as many rows as the sheets of the existing files
\* hold together, and for every sheet the rows tagged with the capitalized
\* category of its file and with its name are exactly the rows of that
\* sheet, in the order of the sheet.
C11_LoaderTagging ==
    Loaded =>
      /\ Len(combined_df.rows) = Cardinality(SourceRows)
      /\ \A i \in 1..Len(excel_files) :
           \A k \in 1..Len(SheetsOf(i)) :
             RowsTagged(combined_df, i, k) = RowsOfSheet(i, k)

\* Both files are there, and sheet UNIT1 of the FOREST file gave its three
\* rows tagged 'Forest' / 'UNIT1'.
C11_Witness ==
    /\ Loaded
    /\ \A i \in 1..Len(excel_files) : Len(SheetsOf(i)) > 0
    /\ SheetsOf(1)[1] = UNIT1
    /\ Len(RowsTagged(combined_df, 1, 1)) = 3

\* Entry i of excel_files is there and the other entry is absent.
OnlyPresent(i) ==
    /\ exists(files[excel_files[i].filename_excel])
    /\ \A j \in 1..Len(excel_files) :
         j # i => ~exists(files[excel_files[j].filename_excel])

\* The rows of the sheets of entry i from sheet k on, each with the two tags
\* and with NaN in the columns of cols its sheet does not have.
RECURSIVE RowsAlone(_, _, _)
RowsAlone(i, k, cols) ==
    IF k > Len(SheetsOf(i)) THEN <<>>
    ELSE LET sheet == SheetsOf(i)[k]
         IN  [j \in 1..Len(sheet.rows) |->
                [col \in cols |->
                   IF col = "Location_Type" THEN Category(i)
                   ELSE IF col = "Admin_Unit_Code" THEN Str(sheet.name)
                   ELSE IF col \in sheet.cols THEN sheet.rows[j][col]
                   ELSE NaN]]
             \o RowsAlone(i, k + 1, cols)

\* What the loader returns for entry i alone: the same for either entry but
\* for the habitat label.
TableAlone(i) ==
    IF SheetsOf(i) = <<>> THEN EmptyTable
    ELSE LET cols == UNION {SheetsOf(i)[k].cols : k \in 1..Len(SheetsOf(i))}
                     \cup {"Location_Type", "Admin_Unit_Code"}
         IN  [cols |-> cols,
              rows |-> [n \in 1..Len(RowsAlone(i, 1, cols)) |->
                          [ix |-> n - 1, c |-> RowsAlone(i, 1, cols)[n]]]]

Printed(line) == \E n \in 1..Len(out) : out[n] = line

\* C12: when one of the two declared files is absent, the loader prints the
\* 'not found' line for it and for no other file, and it returns: the table
\* the run goes on with is the table of the present file alone, whichever of
\* the two that is.
C12_MissingFileSkipped ==
    \A i \in 1..Len(excel_files) :
      (Loaded /\ OnlyPresent(i)) =>
        /\ \A j \in 1..Len(excel_files) :
             j # i => Printed(NotFoundLine(excel_files[j].filename_excel))
        /\ ~Printed(NotFoundLine(excel_files[i].filename_excel))
        /\ combined_df = TableAlone(i)

\* The first declared file is absent and the rows of the second are loaded.
C12_Witness ==
    /\ Loaded
    /\ OnlyPresent(2)
    /\ Len(combined_df.rows) > 0
    /\ Printed(NotFoundLine(excel_files[1].filename_excel))

\* A reader that ran on an empty table showed its notice and built no chart.
ReaderStopped(r) == (r # NotRun /\ r.rows = 0) => (r.notice /\ ~r.charts)

\* C13: with no source file the loader returns the empty table; a run whose
\* loaded table is empty prints the 'nothing loaded' notice and ends without
\* cleaning, without touching the flat file or the table, without creating
\* an engine and without an exception; the dashboard and the EDA script show
\* their notice and build no chart when the table they fetched is empty.
C13_EmptyLoadIsNoOp ==
    /\ (Loaded /\ files = NoFiles) =>
         (combined_df = EmptyTable /\ Printed(NoDataLoadedLine))
    /\ (Loaded /\ empty(combined_df)) =>
         /\ pc \in {"loaded", "done_empty", "idle"}
         /\ pc # "loaded" => Printed(NothingLoadedLine)
         /\ ~Printed(CleaningLine)
         /\ cleaned_df = EmptyTable
         /\ disk = "none"
         /\ csv = start.csv
         /\ table = start.table
         /\ engines = 0
         /\ attempts = 0
    /\ ReaderStopped(app)
    /\ ReaderStopped(eda)

\* A run found no file and ended with the notice, and then both readers
\* found nothing to show.
C13_Witness ==
    /\ pc = "idle"
    /\ runs > 0
    /\ files = NoFiles
    /\ Printed(NothingLoadedLine)
    /\ app # NotRun /\ app.rows = 0 /\ app.notice
    /\ eda # NotRun /\ eda.rows = 0 /\ eda.notice

Habitats == {Forest, Grassland}

\* The Location_Type of the row of combined_df with index label ix.
LoadedCategory(ix) == combined_df.rows[ix + 1].c["Location_Type"]

\* C14: every row the loader returned, every row of the cleaned table and
\* every row of the table bird_observations holds 'Forest' or 'Grassland' in
\* Location_Type, whatever the sheets held in a column of that name, and a
\* cleaned row holds the Location_Type the loader gave it.
C14_CategoryInvariant ==
    /\ Loaded =>
         \A i \in 1..Len(combined_df.rows) :
           combined_df.rows[i].c["Location_Type"] \in Habitats
    /\ \A i \in 1..Len(cleaned_df.rows) :
         /\ cleaned_df.rows[i].c["Location_Type"] \in Habitats
         /\ cleaned_df.rows[i].c["Location_Type"]
              = LoadedCategory(cleaned_df.rows[i].ix)
    /\ table # NoTable =>
         \A i \in 1..Len(table.rows) : table.rows[i]["Location_Type"] \in Habitats

\* A sheet that came with its own Location_Type column was loaded, cleaned
\* and written to the table.
C14_Witness ==
    /\ pc = "done_ok"
    /\ \E i \in 1..Len(excel_files) :
         \E k \in 1..Len(SheetsOf(i)) :
           /\ "Location_Type" \in SheetsOf(i)[k].cols
           /\ Len(SheetsOf(i)[k].rows) > 0
    /\ Len(table.rows) > 0

\* The table holds the rows of t, in order, and nothing else.
HoldsExactly(tbl, t) ==
    /\ tbl # NoTable
    /\ tbl.cols = t.cols
    /\ Len(tbl.rows) = Len(t.rows)
    /\ \A i \in 1..Len(t.rows) :
         \A col \in t.cols :
           tbl.rows[i][col] = IF IsNull(t.rows[i].c[col]) THEN NULL
                              ELSE t.rows[i].c[col]

\* C15: in any run of any sequence of runs, once the write to the database
\* has succeeded the table bird_observations holds exactly the rows of the
\* cleaned table of that run, whatever it held before.
C15_FullReplacement == pc = "done_ok" => HoldsExactly(table, cleaned_df)

\* A successful write over a table that held rows of an earlier run.
C15_Witness ==
    /\ pc = "done_ok"
    /\ start.table # NoTable
    /\ Len(start.table.rows) > 0
    /\ Len(table.rows) > 0
    /\ table # start.table

\* This run follows a run whose write to the database succeeded, and it
\* found the source files as that run found them.
Rerun == last_ok # NoRun /\ last_ok.files = files

\* C16: a successful run that follows a successful run over the same source
\* files leaves the table and the flat file as that run left them, whatever
\* the sinks held before the two.
C16_PipelineIdempotence ==
    (pc = "done_ok" /\ Rerun) => (table = start.table /\ csv = start.csv)

\* The second of two successful runs over the same files has written rows.
C16_Witness ==
    /\ pc = "done_ok"
    /\ Rerun
    /\ Len(table.rows) > 1
    /\ csv = CsvOf(cleaned_df)

\* The run has ended after it reached the two writes.
WritesOver ==
    /\ pc \in {"done_ok", "done_failed", "crashed"}
    /\ disk # "none"

\* C17: in a run with a cleaned table, the flat file holds the complete
\* cleaned table when the flat-file write succeeded, whether or not the write
\* to the database failed, and the write to the database is attempted
\* whether or not the flat-file write failed.
C17_IndependentSinks ==
    WritesOver =>
      /\ disk = "written" => csv = CsvOf(cleaned_df)
      /\ attempts = 1

\* The text sub occurs in the line.
Contains(line, sub) ==
    \E i \in 1..(Len(line) - Len(sub) + 1) :
      SubSeq(line, i, i + Len(sub) - 1) = sub

\* Some printed line names the user, the host, the port and the database.
TargetIdentified ==
    \E n \in 1..Len(out) :
      /\ Contains(out[n], PG_USERNAME)
      /\ Contains(out[n], PG_HOST)
      /\ Contains(out[n], PG_PORT)
      /\ Contains(out[n], PG_DB_NAME)

\* No printed line holds the password, as written or as the URL carries it.
PasswordNotPrinted ==
    \A n \in 1..Len(out) :
      /\ ~Contains(out[n], PG_PASSWORD)
      /\ ~Contains(out[n], quote_plus(PG_PASSWORD))

\* C18 as stated: after a failed write the printed lines identify the
\* target, none holds the password, and a run that carried another password
\* and failed against the same server prints the same lines.
C18_SameTextForAnyPassword ==
    pc = "done_failed" =>
      /\ TargetIdentified
      /\ PasswordNotPrinted
      /\ \A pw \in Passwords :
           to_sql_outcome(server, pw) # "ok" =>
             UploadLines(pw, server) = UploadLines(PG_PASSWORD, server)

\* C18, amended: after a failed write the printed lines identify the
\* target, none holds the password, and a run that carried another password
\* and met the same failure of the same server prints the same lines.
C18_Redaction ==
    pc = "done_failed" =>
      /\ TargetIdentified
      /\ PasswordNotPrinted
      /\ \A pw \in Passwords :
           to_sql_outcome(server, pw) = to_sql_outcome(server, PG_PASSWORD) =>
             UploadLines(pw, server) = UploadLines(PG_PASSWORD, server)

\* The write failed against a server that is down, which any password
\* meets the same way, and the masked connection string was printed.
C18_Witness ==
    /\ pc = "done_failed"
    /\ ~server.up
    /\ Printed(AttemptedLine(PG_PASSWORD))
    /\ \E pw \in Passwords : pw # PG_PASSWORD

\* The write of this run was attempted and raised.
WriteFailed ==
    /\ server # NotMet
    /\ to_sql_outcome(server, PG_PASSWORD) # "ok"

\* C19: a run attempts the write to the database at most once; once an
\* attempt has failed, the error line with the driver's text is printed,
\* the attempt stays the only one of the run, and the run is over.
C19_NoRetry ==
    /\ attempts <= 1
    /\ WriteFailed =>
         /\ attempts = 1
         /\ Printed(ErrorUploadingLine(to_sql_outcome(server, PG_PASSWORD)))
         /\ Printed(EnsureServerLine)
         /\ pc \in {"done_failed", "idle"}

\* The only attempt of a run failed and the process has exited.
C19_Witness ==
    /\ WriteFailed
    /\ attempts = 1
    /\ pc = "idle"

\* C20 as stated: every run has acquired its engine, exactly one, by the
\* time the source files are loaded.
C20_AcquiredAtStart == Loaded => engines = 1

\* The run has passed the flat-file write and entered upload_to_sql.
InUpload == runs > 0 /\ disk = "written" /\ pc # "saved"

\* C20, amended: a run creates at most one engine; it creates it when it
\* enters upload_to_sql, after the files are loaded, the table is cleaned
\* and the flat file is written, and before its only write attempt; a run
\* that loads nothing or ends before that creates none.
C20_AcquiredForUpload ==
    /\ engines <= 1
    /\ engines = 1 <=> InUpload
    /\ attempts <= engines
    /\ InUpload => (Loaded /\ ~empty(combined_df) /\ csv = CsvOf(cleaned_df))

\* One run has its engine with the flat file written and the write to the
\* database still ahead; before it, the files were loaded without one.
C20_Witness ==
    /\ pc = "engine"
    /\ engines = 1
    /\ attempts = 0
    /\ Len(combined_df.rows) > 0

\* A step that starts a write of the run: to_csv (line 152) or to_sql
\* (line 128) is called.
WriteStarts == runs' = runs /\ (disk' # disk \/ attempts' # attempts)

\* C21: a write of a run starts only when the loader has returned the table
\* of all the source files and the cleaned table is what the whole of
\* initial_data_cleaning returned for that table, with the dates converted
\* and the Year column there; a cleaning that raised is followed by no
\* write; and what a write that succeeds stores is that table.
C21_MaterializedBeforeWrite ==
    [][ WriteStarts =>
          /\ Loaded
          /\ combined_df = load_and_combine_data(files).df
          /\ LET r == initial_data_cleaning(combined_df)
             IN  ~r.raised /\ cleaned_df = r.df
          /\ "Year" \in cleaned_df.cols
          /\ \A i \in 1..Len(cleaned_df.rows) :
               cleaned_df.rows[i].c["Date"].k \in {"date", "nat"}
          /\ disk' = "written" => csv' = CsvOf(cleaned_df)
          /\ pc' = "done_ok" => HoldsExactly(table', cleaned_df) ]_vars

\* The flat file of a run is written and cleaning had dropped a duplicate
\* of the loaded table.
C21_Witness ==
    /\ pc = "saved"
    /\ disk = "written"
    /\ Len(cleaned_df.rows) > 0
    /\ Len(cleaned_df.rows) < Len(combined_df.rows)

(***************************************************************************)
(* The frame of initial_data_cleaning.                                     *)
(***************************************************************************)
\* The columns the stages of initial_data_cleaning assign: Date, the three
\* flag columns, the six numeric columns, the sixteen categorical columns.
Assigned ==
    {"Date"} \cup Range(flag_cols) \cup Range(numeric_cols)
    \cup Range(categorical_cols)

\* C22: a call that returns leaves every cell of every other column of the
\* rows it keeps as the raw table had it, adds no column but Year, and so
\* returns a Year column of the input as it was, missing cells included,
\* whatever the year of Date.
C22_FrameOfCleaning ==
    /\ Len(flag_cols) = 3 /\ Len(numeric_cols) = 6 /\ Len(categorical_cols) = 16
    /\ Returned =>
         /\ raw.cols \subseteq df.cols
         /\ df.cols \ raw.cols \subseteq {"Year"}
         /\ \A i \in RowIdx(df) :
              \A col \in raw.cols \ Assigned :
                df.rows[i].c[col] = RawRow(df.rows[i]).c[col]

\* A table came with a Year column and was cleaned: one row keeps the year
\* 1999 beside a Date of 2023, another keeps its missing Year.
C22_Witness ==
    /\ Cleaned
    /\ "Year" \in raw.cols
    /\ \E i \in RowIdx(df) :
         /\ df.rows[i].c["Year"] = Num(1999, 1)
         /\ df.rows[i].c["Date"] = Date(2023, 1, 25)
    /\ \E i \in RowIdx(df) : df.rows[i].c["Year"] = NaN

(***************************************************************************)
(* The two sinks of a run.                                                 *)
(***************************************************************************)
\* The flat file holds, row for row and column for column, the text of the
\* values the table holds.
SameRows(file, tbl) ==
    /\ file # NoFile /\ tbl # NoTable
    /\ file.header = tbl.cols
    /\ Len(file.lines) = Len(tbl.rows)
    /\ \A i \in 1..Len(tbl.rows) :
         \A col \in tbl.cols :
           file.lines[i][col] = CsvField(FromSql(tbl.rows[i][col]))

\* C25: at the end of a run whose two writes succeeded, the flat file and
\* the table bird_observations hold the same rows with the same values,
\* those of the cleaned table of the run, and the table the loader returned
\* is as the loader returned it.
C25_SinkAgreement ==
    pc = "done_ok" =>
      /\ disk = "written"
      /\ SameRows(csv, table)
      /\ HoldsExactly(table, cleaned_df)
      /\ csv = CsvOf(cleaned_df)
      /\ combined_df = load_and_combine_data(files).df

\* Both writes of a run succeeded on a table cleaning had changed.
C25_Witness ==
    /\ pc = "done_ok"
    /\ disk = "written"
    /\ Len(cleaned_df.rows) < Len(combined_df.rows)
    /\ \E i \in 1..Len(table.rows) :
         /\ table.rows[i]["Date"] = NULL
         /\ csv.lines[i]["Date"] = <<>>

(***************************************************************************)
(* Properties of the dashboard.                                            *)
(***************************************************************************)
\* The script ran on a non-empty df that has the columns its sidebar
\* indexes.
SidebarShown ==
    /\ app # NotRun
    /\ app.rows > 0
    /\ {"Location_Type", "Observer", "Common_Name"} \subseteq table.cols

\* C23: on a non-empty loaded table, whatever the selections, the script
\* reaches the tabs or the warning of the empty filtered table.
C23_SurvivesEmptySelection ==
    SidebarShown => app.reached \in {"tabs", "warning"}

\* C24: whatever the selections, every row of the filtered table the views
\* are drawn from is a row of the loaded table, has a Date and an
\* ObservationYear above 0, and has its Location_Type, its ObservationYear
\* and its Observer among the selected ones.
C24_FilterInvariant ==
    SidebarShown =>
      LET d == AppLoad(table, TRUE)
          f == app.filtered_df
      IN  \A i \in 1..Len(f.rows) :
            LET r == f.rows[i]
            IN  /\ \E j \in 1..Len(d.rows) : d.rows[j] = r
                /\ r.c["Date"].k = "date"
                /\ r.c["ObservationYear"].n > 0
                /\ r.c["Location_Type"] \in app.selected.location_type
                /\ r.c["ObservationYear"] \in app.selected.years
                /\ r.c["Observer"] \in app.selected.observers

\* The tabs show a part of a table that also holds a row without a date and
\* rows of an observer who is not selected.
C24_Witness ==
    /\ SidebarShown
    /\ app.reached = "tabs"
    /\ Len(app.filtered_df.rows) > 0
    /\ LET d == AppLoad(table, TRUE)
       IN  /\ \E j \in 1..Len(d.rows) : d.rows[j].c["Date"] = NaT
           /\ \E j \in 1..Len(d.rows) :
                /\ d.rows[j].c["Date"] # NaT
                /\ d.rows[j].c["Observer"] \notin app.selected.observers

====
